---- MODULE Spec2Model ----
(***************************************************************************)
(* PeerNode: REST-like verbs and request/reply over a publish/subscribe    *)
(* bus.  The model has one serving node (n1/gc) that registers routes with *)
(* on(), one calling node (n1/ag) that uses send(), and the NATS adapter   *)
(* between them.  Strings are sequences of one-character strings so that   *)
(* toLowerCase, startsWith, concatenation and the URL regular expression   *)
(* are computed the way the JavaScript computes them.                      *)
(***************************************************************************)
EXTENDS Integers, Sequences, FiniteSets, TLC

VARIABLES
    routeSet,     \* gc.routeSet: the subjects registered through on()
    subs,         \* the bus subscriptions of gc, in creation order
    halted,       \* process.exit(1) has been called in the serving process
    msgs,         \* every send() / publish() call, in call order, with what
                  \* happened to it: replies published, sink calls, invocations
    errorHandler, \* per node: was an errorHandler function given to the constructor
    lastOp,       \* the last on() call and how it ended
    regs,         \* for each subscription, the on() call that made it
    closed,       \* ag.close() has completed: the caller's connection is released
    router,       \* a NodeRouter: its table of routes and the use() calls made
    db            \* the in-memory store of the level-up handler, per unit

vars == <<routeSet, subs, halted, msgs, errorHandler, lastOp, regs, closed,
         router, db>>

(***************************************************************************)
(* Bounds of the model.                                                    *)
(***************************************************************************)
MaxOn == 2      \* on() calls made on the serving node
MaxSend == 1    \* send() / publish() calls made by the calling side

(***************************************************************************)
(* Strings.                                                                *)
(***************************************************************************)
Digits == {"0", "1", "2", "3", "4", "5", "6", "7", "8", "9"}

LowerLetters == {"a", "b", "c", "d", "e", "f", "g", "h", "i", "j", "k", "l", "m",
                 "n", "o", "p", "q", "r", "s", "t", "u", "v", "w", "x", "y", "z"}

UpperLetters == {"A", "B", "C", "D", "E", "F", "G", "H", "I", "J", "K", "L", "M",
                 "N", "O", "P", "Q", "R", "S", "T", "U", "V", "W", "X", "Y", "Z"}

\* One character of String.prototype.toLowerCase
LowerChar(c) ==
    CASE c = "A" -> "a" [] c = "B" -> "b" [] c = "C" -> "c" [] c = "D" -> "d"
      [] c = "E" -> "e" [] c = "F" -> "f" [] c = "G" -> "g" [] c = "H" -> "h"
      [] c = "I" -> "i" [] c = "J" -> "j" [] c = "K" -> "k" [] c = "L" -> "l"
      [] c = "M" -> "m" [] c = "N" -> "n" [] c = "O" -> "o" [] c = "P" -> "p"
      [] c = "Q" -> "q" [] c = "R" -> "r" [] c = "S" -> "s" [] c = "T" -> "t"
      [] c = "U" -> "u" [] c = "V" -> "v" [] c = "W" -> "w" [] c = "X" -> "x"
      [] c = "Y" -> "y" [] c = "Z" -> "z" [] OTHER -> c

\* String.prototype.toLowerCase
ToLowerCase(s) == [i \in 1..Len(s) |-> LowerChar(s[i])]

\* String.prototype.startsWith
StartsWith(s, p) == Len(p) <= Len(s) /\ SubSeq(s, 1, Len(p)) = p

\* String.prototype.replace(pattern, '') with a string pattern: the first
\* occurrence only
RECURSIVE ReplaceFirst(_, _, _)
ReplaceFirst(s, p, i) ==
    IF i + Len(p) - 1 > Len(s) THEN s
    ELSE IF SubSeq(s, i, i + Len(p) - 1) = p
         THEN SubSeq(s, 1, i - 1) \o SubSeq(s, i + Len(p), Len(s))
         ELSE ReplaceFirst(s, p, i + 1)

\* the first index >= i of s whose character is not in cls (Len(s)+1 if none)
RECURSIVE SkipWhile(_, _, _)
SkipWhile(s, i, cls) ==
    IF i <= Len(s) /\ s[i] \in cls THEN SkipWhile(s, i + 1, cls) ELSE i

(***************************************************************************)
(* Verbs.                                                                  *)
(***************************************************************************)
V_get == <<"g", "e", "t">>
V_post == <<"p", "o", "s", "t">>
V_put == <<"p", "u", "t">>
V_patch == <<"p", "a", "t", "c", "h">>
V_delete == <<"d", "e", "l", "e", "t", "e">>
V_start == <<"s", "t", "a", "r", "t">>
V_step == <<"s", "t", "e", "p">>
V_finish == <<"f", "i", "n", "i", "s", "h">>
V_fail == <<"f", "a", "i", "l">>
V_cancel == <<"c", "a", "n", "c", "e", "l">>
V_call == <<"c", "a", "l", "l">>
V_emit == <<"e", "m", "i", "t">>
V_stream == <<"s", "t", "r", "e", "a", "m">>
V_star == <<"*">>
V_error == <<"e", "r", "r", "o", "r">>

ALL_SYNC_METHODS == {V_get, V_post, V_put, V_patch, V_delete}

ALL_ASYNC_METHODS == {V_start, V_step, V_finish, V_fail, V_cancel, V_call, V_emit, V_stream}

ALLOWED_METHODS == ALL_SYNC_METHODS \cup ALL_ASYNC_METHODS \cup {V_star}

(***************************************************************************)
(* The two nodes.                                                          *)
(***************************************************************************)
\* new PeerNode({nodeId: 'n1', service: 'gc'}): both lower-cased
NodeId == ToLowerCase(<<"N", "1">>)

Service == ToLowerCase(<<"G", "C">>)

\* the calling node's `${nodeId}/${service}`
CallerFrom == <<"n", "1", "/", "a", "g">>

(***************************************************************************)
(* Inputs of the API calls.                                                *)
(***************************************************************************)
P_u == <<"/", "u">>                                    \* "/u"
P_U == <<"/", "U">>                                    \* "/U"
P_own == <<"n", "1", "/", "g", "c", "/", "u">>         \* "n1/gc/u"
P_other == <<"n", "1", "/", "a", "g", "/", "u">>       \* "n1/ag/u"
P_longer == <<"n", "1", "/", "g", "c", "x", "/", "u">> \* "n1/gcx/u"

Patterns == {P_u, P_U, P_own, P_other, P_longer}

V_GET == <<"G", "E", "T">>
V_unknown == <<"s", "e", "t">>

\* the verb argument of on(method, pattern, handler)
OnVerbs == {V_get, V_GET, V_post, V_emit, V_star, V_unknown}

(***************************************************************************)
(* Registration: PeerNode.#getRouteURLs and PeerNode.on                    *)
(***************************************************************************)
\* const prefix = `${this.nodeId}/${this.service}`.toLowerCase()
Prefix == ToLowerCase(NodeId \o <<"/">> \o Service)

\* const prefix_url = pattern.startsWith('/') ? `${prefix}${pattern}` : pattern
PrefixUrl(pattern) ==
    IF StartsWith(pattern, <<"/">>) THEN Prefix \o pattern ELSE pattern

IsForeignNever(prefix_url) == FALSE

\* if (!prefix_url.startsWith(prefix)) ... process.exit(1)
IsForeign(prefix_url) == ~StartsWith(prefix_url, Prefix)

PrefixUrlMethodNoVerb(prefix_url, method) == prefix_url

\* method === '*' ? `${prefix_url}--all` : `${prefix_url}--${method}`
PrefixUrlMethod(prefix_url, method) ==
    IF method = V_star
    THEN prefix_url \o <<"-", "-", "a", "l", "l">>
    ELSE prefix_url \o <<"-", "-">> \o method

IsRegisteredNever(rs, key) == FALSE

\* if (this.routeSet.has(prefix_url_method)) ... process.exit(1)
IsRegistered(rs, key) == key \in rs

\* #getRouteURLs(method, pattern): what it returns, or how it exits
GetRouteURLs(method, pattern, rs) ==
    LET prefix_url == PrefixUrl(pattern)
        prefix_url_method == PrefixUrlMethod(prefix_url, method)
    IN  [prefix |-> Prefix,
         prefix_url |-> prefix_url,
         prefix_url_method |-> prefix_url_method,
         exit |-> IF IsForeign(prefix_url) THEN "foreign"
                  ELSE IF IsRegistered(rs, prefix_url_method) THEN "duplicate"
                  ELSE "none"]

\* The overload resolution of on(): the two-argument form on(pattern, handler)
\* leaves verb = '*'; the three-argument form lower-cases the verb.
OnVerb(two, method) == IF two THEN V_star ELSE ToLowerCase(method)

OnOutcomeNoWildcard(two, method, pattern, rs) ==
    LET verb == OnVerb(two, method)
        urls == GetRouteURLs(verb, ToLowerCase(pattern), rs)
    IN  IF ~two /\ verb \notin ALLOWED_METHODS THEN "unknown_verb"
        ELSE IF urls.exit # "none" THEN urls.exit
        ELSE "subscribed"

\* How a call on(...) ends on a node whose route table is rs:
\*   "unknown_verb"  throw new Error(`Unknown verb ...`)
\*   "foreign", "duplicate"   process.exit(1) in #getRouteURLs
\*   "wildcard"      throw new Error(`Wildcard method "*" is not supported ...`)
\*   "subscribed"    routeSet.add(subject); bus.subscribe(subject, ...)
OnOutcome(two, method, pattern, rs) ==
    LET verb == OnVerb(two, method)
        urls == GetRouteURLs(verb, ToLowerCase(pattern), rs)
    IN  IF ~two /\ verb \notin ALLOWED_METHODS THEN "unknown_verb"
        ELSE IF urls.exit # "none" THEN urls.exit
        ELSE IF verb = V_star THEN "wildcard"
        ELSE "subscribed"

AddRouteReplacing(rs, subject) == {subject}

AddRouteNone(rs, subject) == rs

\* this.routeSet.add(subject)
AddRoute(rs, subject) == rs \cup {subject}

\* a subscription made by bus.subscribe: its message queue, the message whose
\* handler is running (0: none) and whether its loop is still running
NewSub(subject, prefix, h, skip) ==
    [subject |-> subject, prefix |-> prefix, handler |-> h, skipRouteCheck |-> skip,
     queue |-> <<>>, cur |-> 0, alive |-> TRUE]

\* the call on(verb, pattern, handler) that made a subscription
Registration(verb, prefix_url, h) == [verb |-> verb, prefix_url |-> prefix_url, handler |-> h]

\* PeerNode.on; the handler passed by the n-th call of on() is the function n
On(two, method, pattern) ==
    /\ ~halted
    /\ lastOp.ons < MaxOn
    /\ LET verb == OnVerb(two, method)
           urls == GetRouteURLs(verb, ToLowerCase(pattern), routeSet)
           outcome == OnOutcome(two, method, pattern, routeSet)
           h == lastOp.ons + 1
       IN  /\ halted' = (outcome \in {"foreign", "duplicate"})
           /\ routeSet' = IF outcome = "subscribed"
                          THEN AddRoute(routeSet, urls.prefix_url_method)
                          ELSE routeSet
           /\ subs' = IF outcome = "subscribed"
                      THEN Append(subs, NewSub(urls.prefix_url_method, urls.prefix, h, FALSE))
                      ELSE subs
           /\ regs' = IF outcome = "subscribed"
                      THEN Append(regs, Registration(verb, urls.prefix_url, h))
                      ELSE regs
           /\ lastOp' = [outcome |-> outcome, verb |-> verb,
                         prefix_url |-> urls.prefix_url,
                         subject |-> urls.prefix_url_method, ons |-> h]
    /\ UNCHANGED <<msgs, errorHandler, closed, router, db>>

\* PeerNode.on called while the adapter has no connection (connect() has not
\* completed): the call runs as far as bus.subscribe, which throws a TypeError
\* on this.nc.subscribe; the route table entry has been added by then
OnUnconnected(method, pattern) ==
    /\ ~halted
    /\ lastOp.ons < MaxOn
    /\ LET verb == OnVerb(FALSE, method)
           urls == GetRouteURLs(verb, ToLowerCase(pattern), routeSet)
           outcome == OnOutcome(FALSE, method, pattern, routeSet)
       IN  /\ halted' = (outcome \in {"foreign", "duplicate"})
           /\ routeSet' = IF outcome = "subscribed"
                          THEN AddRoute(routeSet, urls.prefix_url_method)
                          ELSE routeSet
           /\ lastOp' = [outcome |-> IF outcome = "subscribed" THEN "subscribe_threw"
                                     ELSE outcome,
                         verb |-> verb,
                         prefix_url |-> urls.prefix_url,
                         subject |-> urls.prefix_url_method, ons |-> lastOp.ons + 1]
    /\ UNCHANGED <<subs, regs, msgs, errorHandler, closed, router, db>>

\* the subjects passed to onExternal: an absolute subject of another node, a
\* relative path, a bare word
X_abs == <<"N", "1", "/", "A", "G", "/", "u">>   \* "N1/AG/u"
X_rel == <<"/", "u">>                            \* "/u"
X_word == <<"u">>                                \* "u"

ExternalPatterns == {X_abs, X_rel, X_word}

\* PeerNode.onExternal(pattern, handler): the lower-cased pattern is subscribed
\* to as it is, with the route check switched off and no route table entry
OnExternal(pattern) ==
    /\ ~halted
    /\ lastOp.ons < MaxOn
    /\ LET subject == ToLowerCase(pattern)
           h == lastOp.ons + 1
       IN  /\ subs' = Append(subs, NewSub(subject, <<>>, h, TRUE))
           /\ regs' = Append(regs, Registration(<<>>, subject, h))
           /\ lastOp' = [outcome |-> "external", verb |-> <<>>,
                         prefix_url |-> subject, subject |-> subject, ons |-> h]
    /\ UNCHANGED <<routeSet, halted, msgs, errorHandler, closed, router, db>>

(***************************************************************************)
(* NodeRouter.                                                             *)
(***************************************************************************)
MaxUse == 3     \* use() calls made on the router

\* the URLs passed to use(): relative ones, in either case, and an absolute one
R_v == <<"/", "v">>                            \* "/v"

UseUrls == {P_u, P_U, R_v, P_own}

UseMethods == {V_get, V_GET, V_post, V_unknown}

\* the handler passed by the n-th call of use()
UseHandler(n) == [use |-> n]

\* new NodeRouter(): this.routes = Object.create(null)
NewRouter == [routes |-> <<>>, uses |-> <<>>, calls |-> 0, last |-> "none", applied |-> FALSE]

\* the position of the entry of (method, url) in the table, 0 if it has none
RouteIndex(routes, method, url) ==
    LET found == {i \in 1..Len(routes) : routes[i].method = method /\ routes[i].url = url}
    IN  IF found = {} THEN 0 ELSE CHOOSE i \in found : TRUE

\* the position of the last entry of url in the table, 0 if it has none
LastOfUrl(routes, url) ==
    LET found == {i \in 1..Len(routes) : routes[i].url = url}
    IN  IF found = {} THEN 0 ELSE CHOOSE i \in found : \A j \in found : j <= i

\* this.routes[url][method] = handler, the table being listed in the order of
\* Object.keys: the URLs in the order they were first used, under each URL its
\* methods in the order they were first used; an entry that exists keeps its
\* place and takes the new handler
SetRoute(routes, method, url, h) ==
    LET at == RouteIndex(routes, method, url)
        last == LastOfUrl(routes, url)
        entry == [url |-> url, method |-> method, handler |-> h]
    IN  IF at # 0 THEN [routes EXCEPT ![at].handler = h]
        ELSE IF last # 0
        THEN SubSeq(routes, 1, last) \o <<entry>> \o SubSeq(routes, last + 1, Len(routes))
        ELSE Append(routes, entry)

\* NodeRouter.use(method, url, handler) with a function for handler
Use(method, url) ==
    /\ ~router.applied
    /\ router.calls < MaxUse
    /\ LET m == ToLowerCase(method)
           u == ToLowerCase(url)
           n == router.calls + 1
           ok == StartsWith(u, <<"/">>)
       IN  router' = [router EXCEPT
              !.calls = n,
              !.last = IF ok THEN "ok" ELSE "throws",
              !.uses = IF ok
                       THEN Append(@, [method |-> m, url |-> u, handler |-> UseHandler(n)])
                       ELSE @,
              !.routes = IF ok THEN SetRoute(@, m, u, UseHandler(n)) ELSE @]
    /\ UNCHANGED <<routeSet, subs, halted, msgs, errorHandler, lastOp, regs, closed, db>>

\* the state of the peer a router is applied to
PeerState == [routeSet |-> routeSet, subs |-> subs, regs |-> regs, halted |-> halted,
              lastOp |-> lastOp, thrown |-> FALSE]

\* peer.on(method, url, handler) for the entry r of the table, on a peer in
\* state st
OnStep(st, r) ==
    LET verb == OnVerb(FALSE, r.method)
        urls == GetRouteURLs(verb, ToLowerCase(r.url), st.routeSet)
        outcome == OnOutcome(FALSE, r.method, r.url, st.routeSet)
        done == outcome = "subscribed"
    IN  [routeSet |-> IF done THEN AddRoute(st.routeSet, urls.prefix_url_method)
                      ELSE st.routeSet,
         subs |-> IF done
                  THEN Append(st.subs, NewSub(urls.prefix_url_method, urls.prefix,
                                              r.handler, FALSE))
                  ELSE st.subs,
         regs |-> IF done
                  THEN Append(st.regs, Registration(verb, urls.prefix_url, r.handler))
                  ELSE st.regs,
         halted |-> outcome \in {"foreign", "duplicate"},
         lastOp |-> [outcome |-> outcome, verb |-> verb, prefix_url |-> urls.prefix_url,
                     subject |-> urls.prefix_url_method, ons |-> st.lastOp.ons + 1],
         thrown |-> outcome \in {"unknown_verb", "wildcard"}]

\* the loops of apply(): peer.on for every entry, in order, until one call
\* ends the process or throws
RECURSIVE ApplyRoutes(_, _)
ApplyRoutes(st, routes) ==
    IF routes = <<>> \/ st.halted \/ st.thrown THEN st
    ELSE ApplyRoutes(OnStep(st, Head(routes)), Tail(routes))

\* NodeRouter.apply(peer)
Apply ==
    /\ ~halted
    /\ ~router.applied
    /\ LET st == ApplyRoutes(PeerState, router.routes)
       IN  /\ routeSet' = st.routeSet
           /\ subs' = st.subs
           /\ regs' = st.regs
           /\ halted' = st.halted
           /\ lastOp' = st.lastOp
           /\ router' = [router EXCEPT !.applied = TRUE,
                                       !.last = IF st.thrown THEN "throws" ELSE "ok"]
    /\ UNCHANGED <<msgs, errorHandler, closed, db>>

(***************************************************************************)
(* Values, headers and errors.                                             *)
(***************************************************************************)
\* the JavaScript value undefined
Undefined == [undefined |-> TRUE]

\* the value handler h returns when it returns one
HandlerValue(h) == [value |-> h]

\* the payloads of messages: a mapping, an array, a string, a number, a
\* boolean and null
D_object == [object |-> "uid"]
D_array == [array |-> "uid"]
D_string == [string |-> "uid"]
D_number == [number |-> 42]
D_boolean == [boolean |-> TRUE]
D_null == [null |-> TRUE]

Payloads == {D_object, D_array, D_string, D_number, D_boolean, D_null}

\* data != null && typeof data === 'object'
IsObject(data) == DOMAIN data \subseteq {"object", "array"}

ParsePayloadIdentity(data) == data

\* parsePayload(data)
ParsePayload(data) ==
    IF IsObject(data) THEN data
    ELSE [raw |-> IF data # Undefined THEN data ELSE D_null]

\* NatsAdapter.encode / decode: JSON text of a value and the value of a text.
\* JSON.stringify(undefined) is undefined, which the codec encodes as no bytes
\* at all; JSON.parse of the empty text throws a SyntaxError.
Encode(v) == IF v = Undefined THEN [empty |-> TRUE] ELSE [json |-> v]

DecodeThrows(b) == "json" \notin DOMAIN b

Decode(b) == b.json

\* a number, and the number NaN
Num(n) == [num |-> n]

NaN == [nan |-> TRUE]

\* { ...base, ...extra }
Spread(base, extra) ==
    [k \in DOMAIN base \cup DOMAIN extra |->
        IF k \in DOMAIN extra THEN extra[k] ELSE base[k]]

NoHeaders == [k \in {} |-> "0"]

\* String({res: 405}): what buildHeaders makes of an object-valued header
ObjectObject == <<"[object Object]">>

\* crypto.randomUUID(): the n-th identifier node generates while handling
\* message id; no two calls return the same identifier
RandomUUID(node, id, n) == [node |-> node, msg |-> id, n |-> n]

\* #makeHeaders(method, expectReply, url, extra) of the node whose address is
\* from, the generated trace id being trace
MakeHeaders(method, expectReply, url, extra, from, trace) ==
    Spread([method |-> method,
            url |-> url,
            expectReply |-> IF expectReply THEN "1" ELSE "0",
            from |-> from,
            traceId |-> trace],
           extra)

\* if (extra?.method) console.warn(...)
MakeHeadersWarns(extra) == "method" \in DOMAIN extra

\* headers.expectReply / rawMsg.headers?.get('expectReply')
ExpectReplyOf(headers) ==
    IF "expectReply" \in DOMAIN headers THEN headers.expectReply ELSE "absent"

\* headers.traceId, when the message has one
TraceIdOf(headers) ==
    IF "traceId" \in DOMAIN headers THEN headers.traceId ELSE Undefined

IsAbsoluteAlways(url) == TRUE

\* #assertAbsolute: /^n\d+\/[A-Za-z0-9_-]+\/.+/.test(url)
IsAbsolute(url) ==
    LET d == SkipWhile(url, 2, Digits)
        w == SkipWhile(url, d + 1, LowerLetters \cup UpperLetters \cup Digits \cup {"_", "-"})
    IN  /\ Len(url) >= 1 /\ url[1] = "n"
        /\ d > 2
        /\ d <= Len(url) /\ url[d] = "/"
        /\ w > d + 1
        /\ w <= Len(url) /\ url[w] = "/"
        /\ Len(url) >= w + 1

\* the decimal value of a digit character
DigitValue(c) ==
    CASE c = "0" -> 0 [] c = "1" -> 1 [] c = "2" -> 2 [] c = "3" -> 3 [] c = "4" -> 4
      [] c = "5" -> 5 [] c = "6" -> 6 [] c = "7" -> 7 [] c = "8" -> 8 [] c = "9" -> 9

RECURSIVE DigitsValue(_, _)
DigitsValue(s, n) ==
    IF n = 0 THEN 0 ELSE 10 * DigitsValue(s, n - 1) + DigitValue(s[n])

\* parseInt(s, 10) of a string without leading blanks or sign: the value of its
\* leading digits, NaN when it has none
ParseInt(s) ==
    LET e == SkipWhile(s, 1, Digits)
    IN  IF e = 1 THEN NaN ELSE Num(DigitsValue(s, e - 1))

S_500 == <<"5", "0", "0">>

\* parseInt(err.code || 500, 10); an error without a code has code <<>>
ResultCode(code) == ParseInt(IF code = <<>> THEN S_500 ELSE code)

\* the codes of the errors the transport's request rejects with: no responder,
\* timeout, and an error that carries no code
C_503 == <<"5", "0", "3">>
C_TIMEOUT == <<"T", "I", "M", "E", "O", "U", "T">>
C_none == <<>>

\* the code of the error nc.request rejects with on a connection that has been
\* drained and closed
C_CLOSED == <<"C", "O", "N", "N", "E", "C", "T", "I", "O", "N", "_", "C", "L", "O", "S", "E", "D">>

\* the codes of the errors a request that was sent can fail with
ErrCodes == {C_503, C_TIMEOUT}

\* what a handler may throw or reject with: an Error with a message, an
\* object without a message, and null / undefined
E_boom == [message |-> "boom"]
E_plain == [plain |-> TRUE]
E_nullish == [nullish |-> TRUE]

Thrown == {E_boom, E_plain, E_nullish}

\* err.message ?? 'Internal server error'
ErrorMessageOf(err) ==
    IF "message" \in DOMAIN err THEN err.message ELSE "Internal server error"

(***************************************************************************)
(* Outbound calls: PeerNode.send, PeerNode.#async, NatsAdapter.request     *)
(***************************************************************************)
U_u == <<"n", "1", "/", "g", "c", "/", "u">>   \* "n1/gc/u"
U_U == <<"N", "1", "/", "G", "C", "/", "U">>   \* "N1/GC/U"
U_rel == <<"g", "c", "/", "u">>                \* "gc/u"

\* a call send(method, url, payload, {headers, onError}); connected: has the
\* adapter's connect() completed, so that it has a connection to send on;
\* sinkFails: do the error sinks fail (the log file cannot be written, a
\* callback throws) while the call's message is being handled
SendCall(method, url, headers, onError, connected, sinkFails) ==
    [method |-> method, url |-> url, headers |-> headers, onError |-> onError,
     connected |-> connected, sinkFails |-> sinkFails]

\* the calls made: a plain request, another verb with a per-call onError, an
\* event verb on an upper-case URL, a caller overriding the expectReply header,
\* an unknown verb, a URL that is not absolute, a call made before connect()
SendCalls ==
    {SendCall(V_get, U_u, NoHeaders, FALSE, TRUE, FALSE),
     SendCall(V_post, U_u, NoHeaders, TRUE, TRUE, FALSE),
     SendCall(V_emit, U_U, NoHeaders, FALSE, TRUE, FALSE),
     SendCall(V_get, U_u, [expectReply |-> "0"], FALSE, TRUE, FALSE),
     SendCall(V_unknown, U_u, NoHeaders, FALSE, TRUE, FALSE),
     SendCall(V_get, U_rel, NoHeaders, TRUE, TRUE, FALSE),
     SendCall(V_get, U_u, NoHeaders, FALSE, FALSE, FALSE)}

\* requests made while the error sinks fail
SinkCalls ==
    {SendCall(V_get, U_u, NoHeaders, FALSE, TRUE, TRUE),
     SendCall(V_post, U_u, NoHeaders, TRUE, TRUE, TRUE)}

\* a call send(method, url, payload, {timeout}) on a connected node
SendPayload(method, url, payload, timeout) ==
    [method |-> method, url |-> url, headers |-> NoHeaders, onError |-> FALSE,
     connected |-> TRUE, sinkFails |-> FALSE, payload |-> payload, timeout |-> timeout]

\* the payload argument of a call: send(method, url, payload = {}, opts = {})
CallPayload(c) == IF "payload" \in DOMAIN c THEN c.payload ELSE D_object

\* opts.timeout of a call
CallTimeout(c) == IF "timeout" \in DOMAIN c THEN c.timeout ELSE Undefined

\* constructor: defaultTimeout = 10_000
DefaultTimeout == 10000

RequestTimeoutOr(c) ==
    IF CallTimeout(c) \in {Undefined, D_null, Num(0)} THEN Num(DefaultTimeout)
    ELSE CallTimeout(c)

\* #async: const timeout = opts.timeout ?? this.defaultTimeout
RequestTimeout(c) ==
    IF CallTimeout(c) \in {Undefined, D_null} THEN Num(DefaultTimeout) ELSE CallTimeout(c)

SendUrlAsGiven(url) == url

\* send(): method = String(method).toLowerCase(); url = String(url).toLowerCase()
SendMethod(method) == ToLowerCase(method)

SendUrl(url) == ToLowerCase(url)

SendAllowedAny(method) == TRUE

\* send(): if (ALLOWED_METHODS.has(method)) return this.#async(...)
SendAllowed(method) == method \in ALLOWED_METHODS

\* #async: this.#makeHeaders(method, true, url, opts.headers)
SendExpectsReply(method) == TRUE

\* #async: return await this.bus.request(fullUrl, payload, {headers, timeout})
SendPrimitive(method) == "request"

FullUrlGet(url, method) == url \o <<"-", "-", "g", "e", "t">>

\* #async: `${this.#assertAbsolute(url)}--${method}`
FullUrl(url, method) == url \o <<"-", "-">> \o method

\* the subscriptions a message published on subject is delivered to (none
\* once the serving process has exited)
\* the tokens of a subject: its parts between the dots
RECURSIVE Tokens(_)
Tokens(s) ==
    LET dots == {i \in 1..Len(s) : s[i] = "."}
    IN  IF dots = {} THEN <<s>>
        ELSE LET d == CHOOSE i \in dots : \A j \in dots : i <= j
             IN  <<SubSeq(s, 1, d - 1)>> \o Tokens(SubSeq(s, d + 1, Len(s)))

\* token-wise match of the bus: the token * of a subscription stands for any
\* one token, the token > for all the tokens that are left
RECURSIVE TokensMatch(_, _)
TokensMatch(p, s) ==
    IF p = <<>> THEN s = <<>>
    ELSE IF s = <<>> THEN FALSE
    ELSE IF Head(p) = <<">">> THEN TRUE
    ELSE IF Head(p) = <<"*">> \/ Head(p) = Head(s) THEN TokensMatch(Tail(p), Tail(s))
    ELSE FALSE

\* does a subscription to pattern receive the messages sent to subject
SubjectMatches(pattern, subject) ==
    \/ pattern = subject
    \/ /\ \E i \in 1..Len(pattern) : pattern[i] \in {"*", ">"}
       /\ TokensMatch(Tokens(pattern), Tokens(subject))

Matching(subject) ==
    IF halted THEN {}
    ELSE {k \in 1..Len(subs) : SubjectMatches(subs[k].subject, subject)}

Enqueue(targets, id) ==
    [k \in 1..Len(subs) |->
        IF k \in targets THEN [subs[k] EXCEPT !.queue = Append(@, id)] ELSE subs[k]]

\* #handleError(err, localHandler) on node: the one sink it calls
HandleErrorSink(node, localHandler) ==
    IF localHandler THEN "onError"
    ELSE IF errorHandler[node] THEN "errorHandler"
    ELSE "logError"

\* one call of a sink with err; failed: the sink threw or rejected
SinkCall(node, name, err, failed) ==
    [node |-> node, sink |-> name, err |-> err, failed |-> failed]

\* the code of the error appendFile rejects with when the log file cannot be
\* written
C_EACCES == <<"E", "A", "C", "C", "E", "S">>

\* The error NatsAdapter.request rejects with when nc.request has failed with
\* an error whose code is code: its catch awaits logError(err) and rethrows
\* err; when logError rejects, that rejection leaves the catch instead.
RequestRejection(code, fails) == IF fails THEN C_EACCES ELSE code

\* NatsAdapter.request rejecting, and the catch of #async: the adapter passes
\* the transport's error to logError, #async passes what the adapter rejected
\* with to #handleError
RequestErrorSinks(code, onError, fails) ==
    <<SinkCall("ag", "logError", [code |-> code], fails),
      SinkCall("ag", HandleErrorSink("ag", onError),
               [code |-> RequestRejection(code, fails)], fails)>>

\* PeerNode.send(method, url, payload, {headers: extra, onError}), as one of
\* at most max messages.  On an
\* adapter without a connection this.nc.request throws a TypeError, an error
\* without a code, and the call is over at once.
HasConnectionIgnoringClose(c) == c.connected

\* this.nc.request(...) has an open connection to send on: connect() has
\* completed and close() has not
HasConnection(c) == c.connected /\ ~closed

\* the code of the error the request fails with at once without one: a
\* TypeError (this.nc is undefined) before connect(), the transport's
\* "connection closed" error after close()
NoConnectionCode(c) == IF c.connected THEN C_CLOSED ELSE C_none

SendWithin(c, max) ==
    /\ Len(msgs) < max
    /\ LET method == SendMethod(c.method)
           url == SendUrl(c.url)
           extra == c.headers
           onError == c.onError
           allowed == SendAllowed(method)
           absolute == IsAbsolute(url)
           subject == FullUrl(url, method)
           sent == allowed /\ absolute /\ HasConnection(c)
           failed == allowed /\ absolute /\ ~HasConnection(c)
           code == RequestRejection(NoConnectionCode(c), c.sinkFails)
           id == Len(msgs) + 1
           targets == IF sent THEN Matching(subject) ELSE {}
           m == [kind |-> "send",
                 verb |-> method,
                 url |-> url,
                 subject |-> subject,
                 headers |-> IF allowed
                             THEN MakeHeaders(method, SendExpectsReply(method), url,
                                              extra, CallerFrom, RandomUUID("ag", id, 1))
                             ELSE NoHeaders,
                 primitive |-> IF sent THEN SendPrimitive(method) ELSE "none",
                 reply |-> sent /\ SendPrimitive(method) = "request",
                 data |-> Encode(CallPayload(c)),
                 opts |-> [timeout |-> CallTimeout(c)],
                 timeout |-> IF allowed /\ absolute THEN RequestTimeout(c) ELSE Undefined,
                 ctx |-> Undefined,
                 closed |-> closed,
                 onError |-> onError,
                 sinkFails |-> c.sinkFails,
                 extra |-> extra,
                 warned |-> allowed /\ MakeHeadersWarns(extra),
                 responders |-> Cardinality(targets),
                 state |-> IF ~allowed THEN "threw"
                           ELSE IF ~absolute THEN "rejected"
                           ELSE IF sent /\ SendPrimitive(method) = "request" THEN "pending"
                           ELSE "resolved",
                 result |-> IF failed
                            THEN [res |-> ResultCode(code)]
                            ELSE Undefined,
                 errors |-> IF failed
                            THEN RequestErrorSinks(NoConnectionCode(c), onError, c.sinkFails)
                            ELSE <<>>,
                 replies |-> <<>>,
                 invoked |-> {},
                 outcomes |-> {}]
       IN  /\ msgs' = Append(msgs, m)
           /\ subs' = Enqueue(targets, id)
    /\ UNCHANGED <<routeSet, halted, errorHandler, lastOp, regs, closed, router, db>>

Send(c) == SendWithin(c, MaxSend)

\* the subjects and headers of messages published straight on the bus
PublishSubjects == {FullUrl(U_u, V_get)}

PublishHeaders == {NoHeaders, [expectReply |-> "1"]}

\* the messages published: any payload, or none at all
PublishMessages == Payloads \cup {Undefined}

\* NatsAdapter.publish(subject, message, {headers}): no reply address
Publish(subject, headers, message) ==
    /\ Len(msgs) < MaxSend
    /\ msgs' = Append(msgs, [kind |-> "publish",
                             verb |-> <<>>,
                             url |-> <<>>,
                             subject |-> subject,
                             headers |-> headers,
                             primitive |-> "publish",
                             reply |-> FALSE,
                             data |-> Encode(message),
                             ctx |-> Undefined,
                             closed |-> FALSE,
                             onError |-> FALSE,
                             sinkFails |-> FALSE,
                             extra |-> NoHeaders,
                             warned |-> FALSE,
                             responders |-> Cardinality(Matching(subject)),
                             state |-> "resolved",
                             result |-> Undefined,
                             errors |-> <<>>,
                             replies |-> <<>>,
                             invoked |-> {},
                 outcomes |-> {}])
    /\ subs' = Enqueue(Matching(subject), Len(msgs) + 1)
    /\ UNCHANGED <<routeSet, halted, errorHandler, lastOp, regs, closed, router, db>>

\* ag.close(): await this.nc.drain(), once the calls made so far are over
Close ==
    /\ ~closed
    /\ \A i \in 1..Len(msgs) : msgs[i].state # "pending"
    /\ closed' = TRUE
    /\ UNCHANGED <<routeSet, subs, halted, msgs, errorHandler, lastOp, regs, router, db>>

RequestFailsRejects(i, code) ==
    /\ msgs[i].state = "pending"
    /\ code = C_503 <=> msgs[i].responders = 0
    /\ msgs' = [msgs EXCEPT ![i].state = "rejected"]
    /\ UNCHANGED <<routeSet, subs, halted, errorHandler, lastOp, regs, closed, router, db>>

\* The transport's request fails with an error whose code is code: "no
\* responder" when nobody is subscribed to the subject, a timeout when a
\* subscriber has the message and no reply has arrived in time.  #async
\* resolves to {res: parseInt(err.code || 500, 10)}.
RequestFails(i, code) ==
    /\ msgs[i].state = "pending"
    /\ code = C_503 <=> msgs[i].responders = 0
    /\ msgs' = [msgs EXCEPT
                  ![i].state = "resolved",
                  ![i].result = [res |-> ResultCode(RequestRejection(code, msgs[i].sinkFails))],
                  ![i].errors = @ \o RequestErrorSinks(code, msgs[i].onError,
                                                       msgs[i].sinkFails)]
    /\ UNCHANGED <<routeSet, subs, halted, errorHandler, lastOp, regs, closed, router, db>>

(***************************************************************************)
(* Inbound dispatch: NatsAdapter.subscribe and PeerNode.#onMsg             *)
(***************************************************************************)
\* `${this.nodeId}/${this.service}` of the serving node
ServerFrom == NodeId \o <<"/">> \o Service

\* a message published to a reply address: nc.publish(msg.reply, ...) names no
\* reply address of its own
ReplyMsg(body, headers) ==
    [body |-> Encode(body), headers |-> headers, reply |-> FALSE, delivered |-> FALSE]

RouteMissingAlwaysChecked(sub, subject) == subject \notin routeSet

\* #onMsg: if (!skipRouteCheck && !this.routeSet.has(routeKey)) -> 405 branch
RouteMissing(sub, subject) == ~sub.skipRouteCheck /\ subject \notin routeSet

ExpectsReplyIgnoringHeader(m) == m.reply

\* #onMsg: rawMsg.reply && headers.expectReply === '1'
ExpectsReply(m) == m.reply /\ ExpectReplyOf(m.headers) = "1"

PublishesReplyAlways(m, res) == TRUE

\* NatsAdapter.subscribe: if (msg.reply && res !== undefined) publish(msg.reply, ...)
PublishesReply(m, res) == m.reply /\ res # Undefined

\* The subscription loop takes the next message of subscription k and calls
\* #onMsg: an unmatched route is answered (405 branch) and logged at once,
\* otherwise the registered handler is invoked.  The 405 branch returns the
\* promise of logError: its rejection leaves #onMsg and ends the loop.  So
\* does the SyntaxError of decoding a message without a body, before #onMsg
\* is called.
CanDispatchSerial(k) ==
    /\ ~halted
    /\ subs[k].alive
    /\ \A j \in 1..Len(subs) : subs[j].cur = 0
    /\ subs[k].queue # <<>>

UnmatchedResultError == [error |-> ""]

\* #onMsg, 405 branch: return logError(errMsg); the logger resolves to
\* undefined, which is what the subscription loop receives as the result
UnmatchedResult == Undefined

CanDispatchOverlapping(k) ==
    /\ ~halted
    /\ subs[k].alive
    /\ subs[k].queue # <<>>

\* for await (const msg of sub): the loop of subscription k takes its next
\* message once the callback of its previous one has completed; every
\* subscription has a loop of its own
CanDispatch(k) ==
    /\ ~halted
    /\ subs[k].alive
    /\ subs[k].cur = 0
    /\ subs[k].queue # <<>>

Dispatch(k) ==
    /\ CanDispatch(k)
    /\ LET id == Head(subs[k].queue)
           m == msgs[id]
       IN  IF DecodeThrows(m.data)
           THEN /\ subs' = [subs EXCEPT ![k].queue = Tail(@), ![k].alive = FALSE]
                /\ msgs' = msgs
           ELSE
           IF RouteMissing(subs[k], m.subject)
           THEN /\ subs' = [subs EXCEPT ![k].queue = Tail(@),
                                        ![k].alive = ~m.sinkFails]
                /\ msgs' = [msgs EXCEPT
                     ![id].replies =
                         (IF ExpectsReply(m)
                          THEN Append(@, ReplyMsg([error |-> ""],
                                   MakeHeaders(V_error, FALSE, ObjectObject, NoHeaders,
                                               ServerFrom, RandomUUID("gc", id, 1))))
                          ELSE @)
                         \o (IF ~m.sinkFails /\ PublishesReply(m, UnmatchedResult)
                             THEN <<ReplyMsg(UnmatchedResult, NoHeaders)>>
                             ELSE <<>>),
                     ![id].errors = Append(@, SinkCall("gc", "logError", [text |-> ""],
                                                       m.sinkFails))]
           ELSE /\ subs' = [subs EXCEPT ![k].queue = Tail(@), ![k].cur = id]
                /\ msgs' = [msgs EXCEPT
                     ![id].invoked = @ \cup {k},
                     ![id].ctx = [payload |-> ParsePayload(Decode(m.data))]]
    /\ UNCHANGED <<routeSet, halted, errorHandler, lastOp, regs, closed, router, db>>

\* how a handler invocation ends
R_value == [returns |-> "value"]
R_undefined == [returns |-> "undefined"]

Outcomes == {R_value, R_undefined} \cup {[throws |-> e] : e \in Thrown}

\* evaluating err.message in the catch block of #onMsg throws a TypeError
Escapes == [escapes |-> TRUE]

OnMsgResultNoCatch(h, outcome, m) ==
    IF outcome = R_value THEN HandlerValue(h) ELSE Undefined

\* What the subscription callback (#onMsg) hands back to the subscription loop
\* for message m when handler h ends with outcome
OnMsgResult(h, outcome, m) ==
    IF "returns" \in DOMAIN outcome
    THEN IF outcome = R_value THEN HandlerValue(h) ELSE Undefined
    ELSE IF ExpectsReply(m)
         THEN IF outcome.throws = E_nullish
              THEN Escapes
              ELSE [error |-> ErrorMessageOf(outcome.throws)]
         ELSE Undefined

\* The handler running in subscription k completes: #onMsg returns its value,
\* or reports what it threw to #handleError and returns the error payload;
\* the subscription loop then publishes the result to the reply address.  A
\* TypeError escaping #onMsg ends the loop of the subscription.
HandlerDone(k, outcome) ==
    /\ ~halted
    /\ subs[k].cur # 0
    /\ LET id == subs[k].cur
           m == msgs[id]
           res == OnMsgResult(subs[k].handler, outcome, m)
       IN  /\ msgs' = [msgs EXCEPT
                 ![id].outcomes = @ \cup {outcome},
                 ![id].errors =
                     IF "throws" \in DOMAIN outcome
                     THEN Append(@, SinkCall("gc", HandleErrorSink("gc", FALSE),
                                             outcome.throws, m.sinkFails))
                     ELSE @,
                 ![id].replies =
                     IF res # Escapes /\ PublishesReply(m, res)
                     THEN Append(@, ReplyMsg(res, NoHeaders))
                     ELSE @]
           /\ subs' = [subs EXCEPT ![k].cur = 0, ![k].alive = (res # Escapes)]
    /\ UNCHANGED <<routeSet, halted, errorHandler, lastOp, regs, closed, router, db>>

\* A published reply reaches the requester: nc.request resolves with the first
\* reply and NatsAdapter.request returns its decoded data; later replies to the
\* same request are dropped.
DeliverReply(i, r) ==
    /\ ~msgs[i].replies[r].delivered
    /\ msgs' = [msgs EXCEPT
          ![i].replies[r].delivered = TRUE,
          ![i].state = "resolved",
          ![i].result = IF msgs[i].state = "pending"
                        THEN Decode(msgs[i].replies[r].body)
                        ELSE @]
    /\ UNCHANGED <<routeSet, subs, halted, errorHandler, lastOp, regs, closed, router, db>>

(***************************************************************************)
(* The level-up handler of the examples.                                   *)
(***************************************************************************)
MaxCalls == 2   \* consecutive calls made to the level-up route

P_exp == <<"/", "u", "n", "i", "t", "/", "e", "x", "p", "/", "a", "d", "d">>  \* "/unit/exp/add"

U_exp == <<"n", "1", "/", "g", "c">> \o P_exp                                 \* "n1/gc/unit/exp/add"

UnitIds == {"U42", "U7"}

Exps == {50, 70}

\* the payload { unitId, exp }
ExpPayload(unitId, exp) == [object |-> [unitId |-> unitId, exp |-> exp]]

ExpCalls == {SendPayload(V_post, U_exp, ExpPayload(u, e), Undefined) : u \in UnitIds, e \in Exps}

StatsOfFresh(store, unitId) == [level |-> 1, exp |-> 0]

\* const stats = (db[unitId] ??= { level: 1, exp: 0 })
StatsOf(store, unitId) ==
    IF unitId \in DOMAIN store THEN store[unitId] ELSE [level |-> 1, exp |-> 0]

\* while (stats.exp >= 100) { stats.exp -= 100; stats.level += 1; }
RECURSIVE LevelUp(_)
LevelUp(stats) ==
    IF stats.exp >= 100
    THEN LevelUp([level |-> stats.level + 1, exp |-> stats.exp - 100])
    ELSE stats

\* stats.exp += exp, and the level-up loop
AddExp(store, payload) ==
    LET stats == StatsOf(store, payload.unitId)
    IN  LevelUp([stats EXCEPT !.exp = @ + payload.exp])

\* return { unitId, ...stats }
ExpResult(unitId, stats) ==
    [object |-> [unitId |-> unitId, level |-> stats.level, exp |-> stats.exp]]

\* const res1 = await ag.send(...); const res2 = await ag.send(...): a call is
\* made once the call before it has settled
SendNext(c) ==
    /\ \A i \in 1..Len(msgs) : msgs[i].state # "pending"
    /\ SendWithin(c, MaxCalls)

\* The level-up handler running in subscription k completes: it has updated
\* the store and returns the unit's statistics, which the subscription loop
\* publishes to the reply address.
LevelUpDone(k) ==
    /\ ~halted
    /\ subs[k].cur # 0
    /\ LET id == subs[k].cur
           m == msgs[id]
           payload == m.ctx.payload.object
           stats == AddExp(db, payload)
           res == ExpResult(payload.unitId, stats)
       IN  /\ db' = [u \in DOMAIN db \cup {payload.unitId} |->
                        IF u = payload.unitId THEN stats ELSE db[u]]
           /\ msgs' = [msgs EXCEPT
                 ![id].outcomes = @ \cup {R_value},
                 ![id].replies =
                     IF PublishesReply(m, res)
                     THEN Append(@, ReplyMsg(res, NoHeaders))
                     ELSE @]
           /\ subs' = [subs EXCEPT ![k].cur = 0]
    /\ UNCHANGED <<routeSet, halted, errorHandler, lastOp, regs, closed, router>>

\* const db = {}: the store of the level-up handler has no unit yet
NoUnits == [u \in {} |-> 0]

(***************************************************************************)
(* The specification.                                                      *)
(***************************************************************************)
Init ==
    /\ routeSet = {}
    /\ subs = <<>>
    /\ halted = FALSE
    /\ msgs = <<>>
    /\ errorHandler \in {[n \in {"gc", "ag"} |-> b] : b \in BOOLEAN}
    /\ lastOp = [outcome |-> "none", verb |-> <<>>, prefix_url |-> <<>>,
                 subject |-> <<>>, ons |-> 0]
    /\ regs = <<>>
    /\ closed = FALSE
    /\ router = NewRouter
    /\ db = NoUnits

\* the routes the serving node registers while calls are being made
CallOnVerbs == {V_get, V_GET, V_post}

CallPatterns == {P_u, P_U, P_own}

Next ==
    \/ \E method \in CallOnVerbs, pattern \in CallPatterns : On(FALSE, method, pattern)
    \/ \E c \in SendCalls : Send(c)
    \/ \E subject \in PublishSubjects, headers \in PublishHeaders :
          Publish(subject, headers, D_object)
    \/ \E i \in 1..Len(msgs), code \in ErrCodes : RequestFails(i, code)
    \/ \E k \in 1..Len(subs) : Dispatch(k)
    \/ \E k \in 1..Len(subs), outcome \in Outcomes : HandlerDone(k, outcome)
    \/ \E i \in 1..Len(msgs) : \E r \in 1..Len(msgs[i].replies) : DeliverReply(i, r)

Spec == Init /\ [][Next]_vars

\* Registration alone, over every form of on() and onExternal()
NextReg ==
    \/ \E two \in BOOLEAN, method \in OnVerbs, pattern \in Patterns : On(two, method, pattern)
    \/ \E pattern \in ExternalPatterns : OnExternal(pattern)

RegSpec == Init /\ [][NextReg]_vars

\* Dispatch alone, over every payload: messages published to a registered
\* route
NextPayload ==
    \/ On(FALSE, V_get, P_u)
    \/ \E subject \in PublishSubjects, headers \in PublishHeaders, message \in PublishMessages :
          Publish(subject, headers, message)
    \/ \E k \in 1..Len(subs) : Dispatch(k)
    \/ \E k \in 1..Len(subs), outcome \in Outcomes : HandlerDone(k, outcome)

PayloadSpec == Init /\ [][NextPayload]_vars

\* Error reporting that fails: requests made while the sinks fail
NextSink ==
    \/ \E method \in {V_get, V_post} : On(FALSE, method, P_u)
    \/ \E c \in SinkCalls : Send(c)
    \/ \E i \in 1..Len(msgs), code \in ErrCodes : RequestFails(i, code)
    \/ \E k \in 1..Len(subs) : Dispatch(k)
    \/ \E k \in 1..Len(subs), outcome \in Outcomes : HandlerDone(k, outcome)
    \/ \E i \in 1..Len(msgs) : \E r \in 1..Len(msgs[i].replies) : DeliverReply(i, r)

SinkSpec == Init /\ [][NextSink]_vars

\* The life cycle of the caller's connection: calls before and after close()
NextLife ==
    \/ On(FALSE, V_get, P_u)
    \/ \E c \in SendCalls : Send(c)
    \/ Close
    \/ \E i \in 1..Len(msgs), code \in ErrCodes : RequestFails(i, code)
    \/ \E k \in 1..Len(subs) : Dispatch(k)
    \/ \E k \in 1..Len(subs), outcome \in {R_value, R_undefined} : HandlerDone(k, outcome)
    \/ \E i \in 1..Len(msgs) : \E r \in 1..Len(msgs[i].replies) : DeliverReply(i, r)

LifeSpec == Init /\ [][NextLife]_vars

\* Calls in flight together: two routes, and requests to both of them
MaxInFlight == 2

ConcCalls ==
    {SendCall(V_get, U_u, NoHeaders, FALSE, TRUE, FALSE),
     SendCall(V_post, U_u, NoHeaders, TRUE, TRUE, FALSE)}

NextConc ==
    \/ \E method \in {V_get, V_post} : On(FALSE, method, P_u)
    \/ \E c \in ConcCalls : SendWithin(c, MaxInFlight)
    \/ \E k \in 1..Len(subs) : Dispatch(k)
    \/ \E k \in 1..Len(subs) : HandlerDone(k, R_value)
    \/ \E i \in 1..Len(msgs) : \E r \in 1..Len(msgs[i].replies) : DeliverReply(i, r)

ConcSpec == Init /\ [][NextConc]_vars

\* A router filled by use() calls and applied to the node
NextRouter ==
    \/ \E method \in UseMethods, url \in UseUrls : Use(method, url)
    \/ Apply

RouterSpec == Init /\ [][NextRouter]_vars

\* Letter case: one route registered in upper case and called in lower case,
\* another registered in lower case and called in upper case
V_POST == <<"P", "O", "S", "T">>

CaseOns == {<<V_GET, P_U>>, <<V_post, P_u>>}

CaseCalls ==
    {SendCall(V_get, U_u, NoHeaders, FALSE, TRUE, FALSE),
     SendCall(V_POST, U_U, NoHeaders, FALSE, TRUE, FALSE)}

NextCase ==
    \/ \E o \in CaseOns : On(FALSE, o[1], o[2])
    \/ \E c \in CaseCalls : Send(c)
    \/ \E i \in 1..Len(msgs), code \in ErrCodes : RequestFails(i, code)
    \/ \E k \in 1..Len(subs) : Dispatch(k)
    \/ \E k \in 1..Len(subs), outcome \in Outcomes : HandlerDone(k, outcome)
    \/ \E i \in 1..Len(msgs) : \E r \in 1..Len(msgs[i].replies) : DeliverReply(i, r)

CaseSpec == Init /\ [][NextCase]_vars

\* The level-up example: the route of the level-up handler and consecutive
\* calls to it
NextDemo ==
    \/ On(FALSE, V_post, P_exp)
    \/ \E c \in ExpCalls : SendNext(c)
    \/ \E i \in 1..Len(msgs) : RequestFails(i, C_TIMEOUT)
    \/ \E k \in 1..Len(subs) : Dispatch(k)
    \/ \E k \in 1..Len(subs) : LevelUpDone(k)
    \/ \E i \in 1..Len(msgs) : \E r \in 1..Len(msgs[i].replies) : DeliverReply(i, r)

DemoSpec == Init /\ [][NextDemo]_vars

\* Routes the dispatcher does not find: a route whose pattern holds the
\* wildcard token of the bus receives messages on subjects that are not in the
\* route table.  Beside it, a plain route whose handler fails.
P_wild == <<"/", "u", ".", "*", ".", "x">>                        \* "/u.*.x"

U_wild == <<"n", "1", "/", "g", "c", "/", "u", ".", "a", ".", "x">>  \* "n1/gc/u.a.x"

\* new Error(''): an error with an empty message
E_empty == [message |-> ""]

WildOns == {<<V_get, P_wild>>, <<V_post, P_u>>}

WildCalls ==
    {SendCall(V_get, U_wild, NoHeaders, FALSE, TRUE, FALSE),
     SendCall(V_get, U_wild, [expectReply |-> "0"], FALSE, TRUE, FALSE),
     SendCall(V_post, U_u, NoHeaders, FALSE, TRUE, FALSE),
     SendCall(V_post, U_u, [expectReply |-> "0"], FALSE, TRUE, FALSE)}

WildOutcomes == {R_value, [throws |-> E_empty], [throws |-> E_boom]}

NextWild ==
    \/ \E o \in WildOns : On(FALSE, o[1], o[2])
    \/ \E c \in WildCalls : SendWithin(c, MaxInFlight)
    \/ \E i \in 1..Len(msgs) : RequestFails(i, C_TIMEOUT)
    \/ \E k \in 1..Len(subs) : Dispatch(k)
    \/ \E k \in 1..Len(subs), outcome \in WildOutcomes : HandlerDone(k, outcome)
    \/ \E i \in 1..Len(msgs) : \E r \in 1..Len(msgs[i].replies) : DeliverReply(i, r)

WildSpec == Init /\ [][NextWild]_vars

\* External subscriptions: to a subject under the node's own prefix, given in
\* upper case, and to a wildcard subject; beside them a route of the node
E_get == <<"N", "1", "/", "G", "C", "/", "U", "-", "-", "G", "E", "T">>   \* "N1/GC/U--GET"

E_wild == <<"n", "1", "/", "g", "c", "/", "u", ".", ">">>                  \* "n1/gc/u.>"

ExtPatterns == {E_get, E_wild}

ExtCalls ==
    {SendCall(V_get, U_u, NoHeaders, FALSE, TRUE, FALSE),
     SendCall(V_post, U_wild, NoHeaders, FALSE, TRUE, FALSE),
     SendCall(V_emit, U_wild, [expectReply |-> "0"], FALSE, TRUE, FALSE)}

NextExt ==
    \/ On(FALSE, V_get, P_u)
    \/ \E pattern \in ExtPatterns : OnExternal(pattern)
    \/ \E c \in ExtCalls : Send(c)
    \/ \E k \in 1..Len(subs) : Dispatch(k)
    \/ \E k \in 1..Len(subs) : HandlerDone(k, R_value)
    \/ \E i \in 1..Len(msgs) : \E r \in 1..Len(msgs[i].replies) : DeliverReply(i, r)

ExtSpec == Init /\ [][NextExt]_vars

\* Request timeouts: calls with no timeout option, with one that is null or
\* undefined, and with a timeout of 0 and of 50 ms
Timeouts == {Undefined, D_null, Num(0), Num(50)}

TimeCalls ==
    {SendPayload(V_get, U_u, D_object, t) : t \in Timeouts}
        \cup {SendCall(V_get, U_u, NoHeaders, FALSE, TRUE, FALSE),
              SendCall(V_get, U_u, NoHeaders, FALSE, FALSE, FALSE),
              SendCall(V_get, U_rel, NoHeaders, FALSE, TRUE, FALSE)}

NextTime ==
    \/ On(FALSE, V_get, P_u)
    \/ \E c \in TimeCalls : Send(c)
    \/ \E i \in 1..Len(msgs), code \in ErrCodes : RequestFails(i, code)
    \/ \E k \in 1..Len(subs) : Dispatch(k)
    \/ \E k \in 1..Len(subs) : HandlerDone(k, R_value)
    \/ \E i \in 1..Len(msgs) : \E r \in 1..Len(msgs[i].replies) : DeliverReply(i, r)

TimeSpec == Init /\ [][NextTime]_vars

\* Addresses: calls to routes of nodes whose nodeId is not of the form
\* n<digits>, beside calls to n1/gc
U_x1 == <<"x", "1", "/", "g", "c", "/", "u">>               \* "x1/gc/u"

U_alpha == <<"a", "l", "p", "h", "a", "/", "g", "c", "/", "u">>  \* "alpha/gc/u"

AddrCalls ==
    {SendCall(method, url, NoHeaders, FALSE, TRUE, FALSE) :
        method \in {V_get, V_post}, url \in {U_u, U_x1, U_alpha, U_rel}}

NextAddr ==
    \/ On(FALSE, V_get, P_u)
    \/ \E c \in AddrCalls : Send(c)
    \/ \E i \in 1..Len(msgs), code \in ErrCodes : RequestFails(i, code)
    \/ \E k \in 1..Len(subs) : Dispatch(k)
    \/ \E k \in 1..Len(subs), outcome \in Outcomes : HandlerDone(k, outcome)
    \/ \E i \in 1..Len(msgs) : \E r \in 1..Len(msgs[i].replies) : DeliverReply(i, r)

AddrSpec == Init /\ [][NextAddr]_vars

\* Registration before and after connect(): on() calls made while the adapter
\* has no connection, and on() calls made once it has one
NextConn ==
    \/ \E method \in OnVerbs, pattern \in Patterns : OnUnconnected(method, pattern)
    \/ \E two \in BOOLEAN, method \in OnVerbs, pattern \in Patterns : On(two, method, pattern)

ConnSpec == Init /\ [][NextConn]_vars

\* The ways a dispatch ends: requests to the wildcard route, whose subjects
\* the dispatcher does not find, and to the plain route, whose handler
\* returns a value or throws
PathCalls ==
    {SendCall(V_get, U_wild, NoHeaders, FALSE, TRUE, FALSE),
     SendCall(V_post, U_u, NoHeaders, FALSE, TRUE, FALSE)}

NextPath ==
    \/ \E o \in WildOns : On(FALSE, o[1], o[2])
    \/ \E c \in PathCalls : SendWithin(c, MaxInFlight)
    \/ \E k \in 1..Len(subs) : Dispatch(k)
    \/ \E k \in 1..Len(subs), outcome \in {R_value, [throws |-> E_boom]} :
          HandlerDone(k, outcome)
    \/ \E i \in 1..Len(msgs) : \E r \in 1..Len(msgs[i].replies) : DeliverReply(i, r)

PathSpec == Init /\ [][NextPath]_vars

\* The transport's request primitive answers a request nobody listens to
\* with "no responders" and runs a timer for every other request: a request
\* that stays pending is eventually failed.
LiveSpec ==
    Spec /\ WF_vars(\E i \in 1..Len(msgs) : \E code \in ErrCodes : RequestFails(i, code))

(***************************************************************************)
(* Properties.                                                             *)
(***************************************************************************)
\* the subscriptions made by on()
OnSubs == {k \in 1..Len(subs) : ~subs[k].skipRouteCheck}

\* C1: on one node at most one handler is subscribed for any (verb, path), so
\* no message reaches two handlers; a second on() for a registered
\* (verb, path) halts the process with the route table entry and the earlier
\* handler's subscription in place, and no second subscription.
C1_OneHandlerPerRoute ==
    /\ \A j, k \in OnSubs : subs[j].subject = subs[k].subject => j = k
    /\ \A i \in 1..Len(msgs) : Cardinality(msgs[i].invoked) <= 1
    /\ lastOp.outcome = "duplicate" =>
          /\ halted
          /\ lastOp.subject \in routeSet
          /\ \E k \in OnSubs : /\ subs[k].subject = lastOp.subject
                                /\ subs[k].handler < lastOp.ons

\* a second on() for a registered route has been made and refused
C1_Witness ==
    /\ lastOp.outcome = "duplicate"
    /\ Len(subs) = 1
    /\ lastOp.ons = 2

\* C2: every subject on() subscribes to starts with the node's own lower-cased
\* nodeId/service prefix; a pattern resolving to another subject halts the
\* process, with no route table entry and no subscription for it.
C2_PrefixSafety ==
    /\ \A k \in OnSubs : StartsWith(subs[k].subject, <<"n", "1", "/", "g", "c">>)
    /\ \A key \in routeSet : StartsWith(key, <<"n", "1", "/", "g", "c">>)
    /\ lastOp.outcome = "foreign" =>
          /\ halted
          /\ lastOp.subject \notin routeSet
          /\ \A k \in OnSubs : subs[k].subject # lastOp.subject

\* a foreign pattern has been refused after a route had been registered
C2_Witness ==
    /\ lastOp.outcome = "foreign"
    /\ halted
    /\ Len(subs) = 1

\* C10: a handler is invoked only for a message whose verb and path are the
\* ones it was registered for, and the duplicate-route exit happens only for a
\* (verb, path) pair that is already registered: handlers for different verbs
\* on one path coexist.
C10_VerbsRouteIndependently ==
    /\ \A i \in 1..Len(msgs) : \A k \in msgs[i].invoked :
          msgs[i].kind = "send" => /\ regs[k].verb = msgs[i].verb
                                   /\ regs[k].prefix_url = msgs[i].url
    /\ lastOp.outcome = "duplicate" =>
          \E k \in 1..Len(regs) : /\ regs[k].verb = lastOp.verb
                                   /\ regs[k].prefix_url = lastOp.prefix_url
    /\ \A j, k \in 1..Len(regs) :
          (regs[j].verb # regs[k].verb \/ regs[j].prefix_url # regs[k].prefix_url)
             => subs[j].subject # subs[k].subject

\* two verbs are registered on one path and a request has reached a handler
C10_Witness ==
    /\ Len(regs) = 2
    /\ regs[1].prefix_url = regs[2].prefix_url
    /\ regs[1].verb # regs[2].verb
    /\ \E i \in 1..Len(msgs) : msgs[i].kind = "send" /\ msgs[i].invoked # {}

\* the requests whose transport request has been rejected
TransportFailed ==
    {i \in 1..Len(msgs) : /\ msgs[i].kind = "send"
                          /\ \E n \in 1..Len(msgs[i].errors) : msgs[i].errors[n].node = "ag"}

\* C3: when the transport request behind a send() fails, the call resolves to
\* {res: code} with code a numeric status code (503 for "no responder", 500
\* for an error without a code), and the error has gone to #handleError.
C3_FailureResultIsStatusCode ==
    \A i \in TransportFailed :
        LET code == msgs[i].errors[1].err.code
        IN  /\ msgs[i].state = "resolved"
            /\ msgs[i].result \in {[res |-> Num(n)] : n \in 100..599}
            /\ code = C_503 => msgs[i].result = [res |-> Num(503)]
            /\ code = C_none => msgs[i].result = [res |-> Num(500)]
            /\ Len(msgs[i].errors) = 2
            /\ msgs[i].errors[2].sink = HandleErrorSink("ag", msgs[i].onError)

\* C4: every request-style send() that is pending eventually resolves, and a
\* request that resolved without a reply having been delivered resolved to a
\* failure result {res: ...}.
C4_RequestsResolve ==
    /\ \A i \in 1..MaxSend :
          (Len(msgs) >= i /\ msgs[i].state = "pending")
             ~> (Len(msgs) >= i /\ msgs[i].state = "resolved")
    /\ [](\A i \in 1..Len(msgs) :
             (/\ msgs[i].kind = "send"
              /\ msgs[i].primitive = "request"
              /\ msgs[i].state = "resolved"
              /\ \A r \in 1..Len(msgs[i].replies) : ~msgs[i].replies[r].delivered)
                => DOMAIN msgs[i].result = {"res"})

\* a request that reached a handler has been failed by the timeout, no reply
\* having been published
C4_Witness ==
    \E i \in 1..Len(msgs) :
        /\ msgs[i].invoked # {}
        /\ msgs[i].replies = <<>>
        /\ msgs[i].state = "resolved"
        /\ msgs[i].errors # <<>>
        /\ msgs[i].errors[1].err = [code |-> C_TIMEOUT]

\* the sink calls made on the serving node for message i
ServerSinkCalls(i) ==
    {n \in 1..Len(msgs[i].errors) : msgs[i].errors[n].node = "gc"}

\* C5: when a handler throws or rejects on a request that expects a reply,
\* the reply {error: message-or-default} is published to the caller, no
\* handler result is, and the error reaches the error sink exactly once.
C5_HandlerErrorReply ==
    \A i \in 1..Len(msgs) : \A o \in msgs[i].outcomes :
        ("throws" \in DOMAIN o /\ ExpectsReply(msgs[i])) =>
            /\ Len(msgs[i].replies) = 1
            /\ Decode(msgs[i].replies[1].body) = [error |-> ErrorMessageOf(o.throws)]
            /\ Cardinality(ServerSinkCalls(i)) = 1

\* the requests sent with a verb that is not registered on a path on which
\* another verb is
UnregisteredVerb ==
    {i \in 1..Len(msgs) :
        /\ msgs[i].kind = "send"
        /\ msgs[i].primitive = "request"
        /\ \A k \in 1..Len(regs) :
              ~(regs[k].verb = msgs[i].verb /\ regs[k].prefix_url = msgs[i].url)
        /\ \E k \in 1..Len(regs) :
              regs[k].verb # msgs[i].verb /\ regs[k].prefix_url = msgs[i].url}

C7_ReplyIffValueAndExpected ==
    \A i \in 1..Len(msgs) :
        /\ msgs[i].outcomes # {} =>
              ((\E r \in 1..Len(msgs[i].replies) :
                    "value" \in DOMAIN Decode(msgs[i].replies[r].body))
               <=> (R_value \in msgs[i].outcomes /\ ExpectReplyOf(msgs[i].headers) = "1"))
        /\ \A r \in 1..Len(msgs[i].replies) :
              /\ ~msgs[i].replies[r].reply
              /\ ExpectReplyOf(msgs[i].replies[r].headers) # "1"

\* C8: every reply to a request sent with expectReply = '1' carries the
\* traceId of the request.
C8_ReplyCarriesTraceId ==
    \A i \in 1..Len(msgs) :
        ExpectReplyOf(msgs[i].headers) = "1" =>
            \A r \in 1..Len(msgs[i].replies) :
                TraceIdOf(msgs[i].replies[r].headers) = TraceIdOf(msgs[i].headers)

\* C9: a send() with a fire-and-forget verb builds expectReply = '0', uses the
\* publish primitive, resolves without waiting and reports no error.
C9_FireAndForget ==
    \A i \in 1..Len(msgs) :
        (/\ msgs[i].kind = "send"
         /\ msgs[i].verb \in ALL_ASYNC_METHODS
         /\ msgs[i].primitive # "none") =>
            /\ ExpectReplyOf(msgs[i].headers) = "0"
            /\ msgs[i].primitive = "publish"
            /\ msgs[i].state = "resolved"
            /\ msgs[i].errors = <<>>

\* C11: every error arising in a dispatch or a send reaches exactly one error
\* sink, the one #handleError's precedence chooses: the call's onError, else
\* the node's errorHandler, else the fallback logger.
C11_OneSinkByPrecedence ==
    \A i \in 1..Len(msgs) : \A n \in 1..Len(msgs[i].errors) :
        LET e == msgs[i].errors[n]
        IN  /\ e.sink = HandleErrorSink(e.node, e.node = "ag" /\ msgs[i].onError)
            /\ \A k \in 1..Len(msgs[i].errors) :
                  (msgs[i].errors[k].node = e.node /\ msgs[i].errors[k].err = e.err)
                     => k = n

\* C12: a failure inside an error sink never propagates: a send whose
\* transport request failed still resolves to the failure result of the
\* transport's error, a dispatch whose handler threw still publishes its error
\* reply, and the subscriptions keep running.
C12_SinkFailureSwallowed ==
    \A i \in 1..Len(msgs) :
        msgs[i].sinkFails =>
            /\ i \in TransportFailed =>
                  /\ msgs[i].state = "resolved"
                  /\ msgs[i].result = [res |-> ResultCode(msgs[i].errors[1].err.code)]
            /\ \A o \in msgs[i].outcomes :
                  ("throws" \in DOMAIN o /\ o.throws # E_nullish /\ ExpectsReply(msgs[i])) =>
                      /\ \E r \in 1..Len(msgs[i].replies) :
                            Decode(msgs[i].replies[r].body) = [error |-> ErrorMessageOf(o.throws)]
                      /\ \A k \in msgs[i].invoked : subs[k].alive

Handled == {i \in 1..Len(msgs) : msgs[i].invoked # {}}

\* C15 as stated: ctx.payload is the inbound payload x itself when x is a
\* mapping and {raw: x} when x is anything else.
C15_NonMappingWrapped ==
    \A i \in Handled :
        LET x == Decode(msgs[i].data)
        IN  msgs[i].ctx.payload = IF x = D_object THEN x ELSE [raw |-> x]

\* C15 as amended: ctx.payload is the inbound payload x itself when x is a
\* mapping or an array, and {raw: x} when x is a string, a number, a boolean
\* or null; an absent value is normalized to {raw: null}; the handler's
\* ctx.payload is never a primitive.
C15_PayloadNormalized ==
    /\ \A i \in Handled :
          LET x == Decode(msgs[i].data)
          IN  /\ msgs[i].ctx.payload = IF x \in {D_object, D_array} THEN x ELSE [raw |-> x]
              /\ DOMAIN msgs[i].ctx.payload \subseteq {"object", "array", "raw"}
    /\ ParsePayload(Undefined) = [raw |-> D_null]

\* a handler has been invoked for a message whose payload is a string
C15_Witness ==
    \E i \in Handled :
        /\ Decode(msgs[i].data) = D_string
        /\ msgs[i].ctx.payload = [raw |-> D_string]

\* the header keys #makeHeaders sets itself
ReservedKeys == {"method", "url", "expectReply", "from", "traceId"}

\* C16: every message send() builds carries method = the verb, expectReply '0'
\* or '1', from = the sender's nodeId/service and the trace id generated for
\* the call, with the caller's extra headers merged in; an extra header
\* replaces a reserved key only with a warning.
C16_HeadersBuilt ==
    \A i \in 1..Len(msgs) :
        (msgs[i].kind = "send" /\ msgs[i].state # "threw") =>
            LET h == msgs[i].headers
                extra == msgs[i].extra
            IN  /\ ReservedKeys \subseteq DOMAIN h
                /\ \A k \in DOMAIN extra : h[k] = extra[k]
                /\ DOMAIN extra \cap ReservedKeys # {} => msgs[i].warned
                /\ "method" \notin DOMAIN extra => h.method = msgs[i].verb
                /\ "expectReply" \notin DOMAIN extra => h.expectReply \in {"0", "1"}
                /\ "from" \notin DOMAIN extra => h.from = CallerFrom
                /\ "traceId" \notin DOMAIN extra => h.traceId = RandomUUID("ag", i, 1)

\* C17: a dispatch whose handler threw, or returned a value for a message with
\* a reply address, ends with a published reply or an error sink entry, and
\* no dispatch ends in an error that leaves the subscription callback (which
\* ends the subscription's loop).
C17_DispatchEndsHandled ==
    /\ \A i \in 1..Len(msgs) : \A o \in msgs[i].outcomes :
          ("throws" \in DOMAIN o \/ (o = R_value /\ msgs[i].reply)) =>
              \/ msgs[i].replies # <<>>
              \/ ServerSinkCalls(i) # {}
    /\ \A k \in 1..Len(subs) : subs[k].alive

\* C18: while the handler of one subscription is still running, a message
\* waiting on another subscription of the node can be dispatched; while the
\* requests made so far are waiting for their replies another send() can be
\* made, and a reply to one waiting request can be delivered while another
\* request is still waiting.
C18_NoBlocking ==
    /\ \A k, j \in 1..Len(subs) :
          (/\ j # k
           /\ subs[k].cur # 0
           /\ subs[j].cur = 0 /\ subs[j].alive /\ subs[j].queue # <<>>
           /\ ~halted) => ENABLED Dispatch(j)
    /\ (/\ msgs # <<>>
        /\ Len(msgs) < MaxInFlight
        /\ \A i \in 1..Len(msgs) : msgs[i].state = "pending" /\ msgs[i].invoked = {}) =>
              \A c \in ConcCalls : ENABLED SendWithin(c, MaxInFlight)
    /\ \A i, n \in 1..Len(msgs) :
          (msgs[i].state = "pending" /\ msgs[n].state = "pending" /\ n # i) =>
              \A r \in 1..Len(msgs[n].replies) : ENABLED DeliverReply(n, r)

\* two handlers are running at once, for two requests that are both waiting
C18_Witness ==
    \E k, j \in 1..Len(subs) :
        /\ j # k
        /\ subs[k].cur # 0 /\ subs[j].cur # 0
        /\ msgs[subs[k].cur].state = "pending"
        /\ msgs[subs[j].cur].state = "pending"

\* C19: after close() the connection is released, and a send() made after it
\* is over at once with a failure outcome: its message reaches no subscriber
\* and no handler, it never waits for a reply, and when it was handed to the
\* transport it resolved to a failure result {res: ...}.
C19_SendAfterCloseFailsFast ==
    \A i \in 1..Len(msgs) :
        (msgs[i].kind = "send" /\ msgs[i].closed) =>
            /\ closed
            /\ msgs[i].state \in {"threw", "rejected", "resolved"}
            /\ msgs[i].responders = 0
            /\ msgs[i].invoked = {}
            /\ msgs[i].replies = <<>>
            /\ msgs[i].state = "resolved" => DOMAIN msgs[i].result = {"res"}

\* a request has been made after close() to a route that has a subscriber
C19_Witness ==
    \E i \in 1..Len(msgs) :
        /\ msgs[i].closed
        /\ msgs[i].state = "resolved"
        /\ msgs[i].verb = V_get
        /\ \E k \in 1..Len(subs) : subs[k].subject = msgs[i].subject

\* the subscriptions made by onExternal()
ExternalSubs == {k \in 1..Len(subs) : subs[k].skipRouteCheck}

\* C20: onExternal() subscribes only to an absolute subject
\* (nodeId/service/path); a call with another subject is rejected and makes no
\* subscription.
C20_ExternalSubjectAbsolute ==
    \A k \in ExternalSubs : IsAbsolute(subs[k].subject)

\* the subject a router entry (method, url) is served on
RouteSubject(method, url) == PrefixUrlMethod(PrefixUrl(url), method)

\* C21: a second use() of a (method, url) key already in the router's table is
\* a fatal configuration error and no silent overwrite: once the router has
\* been applied, the handler of a later use() of a key never serves the key
\* in place of the handler of an earlier use()
C21_NoSilentOverwrite ==
    router.applied =>
        \A i, j \in 1..Len(router.uses) :
            (i < j /\ router.uses[i].method = router.uses[j].method
                   /\ router.uses[i].url = router.uses[j].url) =>
                \A k \in 1..Len(subs) :
                    subs[k].subject = RouteSubject(router.uses[i].method, router.uses[i].url)
                        => subs[k].handler # router.uses[j].handler

\* the call c and the registration on(method, pattern) name the same
\* (nodeId, service, path, verb), whatever the letter case of either
SameRoute(c, method, pattern) ==
    /\ ToLowerCase(c.method) = ToLowerCase(method)
    /\ ToLowerCase(c.url) = ToLowerCase(Prefix \o pattern)

\* subscription k is the one that the call on(method, pattern) makes
MadeBy(k, method, pattern) ==
    /\ ~subs[k].skipRouteCheck
    /\ regs[k].verb = OnVerb(FALSE, method)
    /\ regs[k].prefix_url = PrefixUrl(ToLowerCase(pattern))

\* C22: subjects are case-normalized on both ends: the subject a send() call
\* targets equals the subject on() subscribed to for the same (nodeId, service,
\* path, verb) whatever the letter case either side used, and the call's
\* message is delivered to that subscription
C22_CaseNormalized ==
    [][\A c \in CaseCalls : \A o \in CaseOns :
          (Send(c) /\ ~halted /\ SameRoute(c, o[1], o[2])) =>
              \A k \in 1..Len(subs) :
                  MadeBy(k, o[1], o[2]) =>
                      /\ msgs'[Len(msgs')].subject = subs[k].subject
                      /\ \E q \in 1..Len(subs'[k].queue) : subs'[k].queue[q] = Len(msgs')]_vars

\* the route registered in upper case has served the call made in lower case,
\* and the route registered in lower case the call made in upper case
C22_Witness ==
    \E i \in 1..Len(msgs) : \E k \in 1..Len(subs) :
        /\ msgs[i].kind = "send"
        /\ k \in msgs[i].invoked
        /\ subs[k].subject = msgs[i].subject
        /\ msgs[i].state = "resolved"
        /\ msgs[i].verb = V_post

\* the payload the call of message i carried
SentPayload(i) == Decode(msgs[i].data).object

\* the exp added to unit by the messages 1..n that reached the handler
RECURSIVE TotalExp(_, _)
TotalExp(unitId, n) ==
    IF n = 0 THEN 0
    ELSE TotalExp(unitId, n - 1)
         + (IF msgs[n].responders > 0 /\ SentPayload(n).unitId = unitId
            THEN SentPayload(n).exp ELSE 0)

\* message i has been answered by the handler
Answered(i) == msgs[i].state = "resolved" /\ DOMAIN msgs[i].result = {"object"}

\* C23: consecutive calls to the level-up route are handled in order against
\* the same per-unit state, which starts at level 1 / exp 0 and turns every
\* 100 exp into one level: each call returns the unit's statistics after all
\* the exp sent so far, so post exp 50 returns {exp: 50, level: 1} and a
\* following post exp 70 returns {exp: 20, level: 2}
C23_LevelUpInOrder ==
    /\ \A i \in 1..Len(msgs) :
          Answered(i) =>
              LET unitId == SentPayload(i).unitId
                  total == TotalExp(unitId, i)
              IN  msgs[i].result = [object |-> [unitId |-> unitId,
                                                level |-> 1 + (total \div 100),
                                                exp |-> total % 100]]
    /\ (/\ Len(msgs) >= 2
        /\ Answered(1) /\ Answered(2)
        /\ SentPayload(1) = [unitId |-> "U42", exp |-> 50]
        /\ SentPayload(2) = [unitId |-> "U42", exp |-> 70])
       => /\ msgs[1].result.object = [unitId |-> "U42", level |-> 1, exp |-> 50]
          /\ msgs[2].result.object = [unitId |-> "U42", level |-> 2, exp |-> 20]

\* the two calls of the example have been answered
C23_Witness ==
    /\ Len(msgs) >= 2
    /\ Answered(1) /\ Answered(2)
    /\ SentPayload(1) = [unitId |-> "U42", exp |-> 50]
    /\ SentPayload(2) = [unitId |-> "U42", exp |-> 70]
    /\ db["U42"] = [level |-> 2, exp |-> 20]

\* the dispatcher found no route for message i: it took the unmatched-route
\* branch, which logs the empty text
Unmatched(i) ==
    \E e \in 1..Len(msgs[i].errors) :
        /\ msgs[i].errors[e].node = "gc"
        /\ msgs[i].errors[e].sink = "logError"
        /\ msgs[i].errors[e].err = [text |-> ""]

\* reply r carries the status 405: a field res, as the code names the status,
\* in its headers or in its body
Carries405(r) ==
    \/ "res" \in DOMAIN r.headers /\ r.headers.res = Num(405)
    \/ "res" \in DOMAIN Decode(r.body) /\ Decode(r.body).res = Num(405)

\* C24: for a message on a subject that is not in the route table (route check
\* not bypassed) the handler is not invoked; if the sender expects a reply,
\* exactly one error reply carrying a 405 status is published and the
\* condition is logged; if no reply is expected nothing is published
C24_Unmatched405 ==
    \A i \in 1..Len(msgs) :
        Unmatched(i) =>
            /\ msgs[i].invoked = {}
            /\ ExpectsReply(msgs[i]) =>
                  /\ Len(msgs[i].replies) = 1
                  /\ Carries405(msgs[i].replies[1])
            /\ ~ExpectsReply(msgs[i]) => msgs[i].replies = <<>>

\* the caller of message i has received a reply
RepliedTo(i) ==
    /\ msgs[i].state = "resolved"
    /\ \E r \in 1..Len(msgs[i].replies) :
          /\ msgs[i].replies[r].delivered
          /\ msgs[i].result = Decode(msgs[i].replies[r].body)

\* the handler of message i threw
HandlerThrew(i) == \E o \in msgs[i].outcomes : "throws" \in DOMAIN o

\* C25: the reply a caller receives for an unmatched route differs from the
\* reply it receives when the handler threw, whatever the handler threw, an
\* error with an empty message included
C25_RepliesDistinguishable ==
    \A i, j \in 1..Len(msgs) :
        (Unmatched(i) /\ RepliedTo(i) /\ HandlerThrew(j) /\ RepliedTo(j))
            => msgs[i].result # msgs[j].result

\* C26: onExternal() leaves the route table unchanged and is never rejected
\* by the own-prefix or duplicate-route checks: it always adds a subscription;
\* every message an external subscription takes from its queue is passed to
\* the handler without a route check, whatever its subject or verb
C26_ExternalUnchecked ==
    [][/\ \A pattern \in ExtPatterns :
              OnExternal(pattern) =>
                  /\ routeSet' = routeSet
                  /\ ~halted'
                  /\ Len(subs') = Len(subs) + 1
                  /\ subs'[Len(subs')].subject = ToLowerCase(pattern)
                  /\ subs'[Len(subs')].skipRouteCheck
       /\ \A k \in ExternalSubs :
              (Dispatch(k) /\ ~DecodeThrows(msgs[Head(subs[k].queue)].data)) =>
                  /\ subs'[k].cur = Head(subs[k].queue)
                  /\ k \in msgs'[Head(subs[k].queue)].invoked
                  /\ msgs'[Head(subs[k].queue)].replies = msgs[Head(subs[k].queue)].replies
                  /\ msgs'[Head(subs[k].queue)].errors = msgs[Head(subs[k].queue)].errors]_vars

\* two external subscriptions to one subject under the node's own prefix
\* exist, and an external subscription has passed to its handler a message
\* whose subject is neither in the route table nor the subscription's own
C26_Witness ==
    /\ \E k, j \in ExternalSubs :
          /\ k # j
          /\ subs[k].subject = subs[j].subject
          /\ StartsWith(subs[k].subject, Prefix)
    /\ \E i \in 1..Len(msgs) : \E k \in ExternalSubs :
          /\ k \in msgs[i].invoked
          /\ msgs[i].subject \notin routeSet
          /\ msgs[i].subject # subs[k].subject

\* the errors the handler of message i threw
ThrownFor(i) == {o.throws : o \in {x \in msgs[i].outcomes : "throws" \in DOMAIN x}}

\* C27: when a handler throws or rejects on a message that does not expect a
\* reply (no reply address, or an expectReply header other than '1'), the
\* error is reported to the error sink of the serving node and nothing is
\* published back: the caller never receives the error
C27_SilentHandlerError ==
    \A i \in 1..Len(msgs) :
        (HandlerThrew(i) /\ ~(msgs[i].reply /\ ExpectReplyOf(msgs[i].headers) = "1")) =>
            /\ msgs[i].replies = <<>>
            /\ \A e \in ThrownFor(i) :
                  \E n \in ServerSinkCalls(i) :
                      /\ msgs[i].errors[n].err = e
                      /\ msgs[i].errors[n].sink = HandleErrorSink("gc", FALSE)
            /\ msgs[i].result # Undefined => DOMAIN msgs[i].result = {"res"}

\* a handler has thrown on a request whose caller set expectReply to '0', and
\* the request has ended for the caller
C27_Witness ==
    \E i \in 1..Len(msgs) :
        /\ msgs[i].kind = "send"
        /\ msgs[i].reply
        /\ ExpectReplyOf(msgs[i].headers) = "0"
        /\ HandlerThrew(i)
        /\ msgs[i].state = "resolved"

\* the request primitive of the transport has been called for message i
RequestCalled(i) ==
    msgs[i].kind = "send" /\ msgs[i].state \notin {"threw", "rejected"}

\* C28: the timeout handed to the transport's request primitive is the
\* per-call timeout when the call options supply one, and the node's default
\* timeout otherwise
C28_TimeoutHandedOver ==
    \A i \in 1..Len(msgs) :
        RequestCalled(i) =>
            IF msgs[i].opts.timeout \in {Undefined, D_null}
            THEN msgs[i].timeout = Num(10000)
            ELSE msgs[i].timeout = msgs[i].opts.timeout

\* a request with a per-call timeout of 0 and one with none have been made
C28_Witness ==
    \E i \in 1..Len(msgs) :
        /\ RequestCalled(i)
        /\ msgs[i].opts.timeout = Num(0)
        /\ msgs[i].timeout = Num(0)
        /\ msgs[i].state = "resolved"

\* the positions of the slashes of a URL
Slashes(url) == {i \in 1..Len(url) : url[i] = "/"}

\* url is an address nodeId/service/path with a non-empty nodeId, service
\* and path
WellAddressed(url) ==
    \E a, b \in Slashes(url) :
        /\ 1 < a
        /\ a + 1 < b
        /\ b < Len(url)
        /\ \A i \in Slashes(url) : i >= a
        /\ \A i \in Slashes(url) : i = a \/ i >= b

\* C29: addressing does not require a nodeId of the form n<digits>: a send()
\* with an allowed verb to nodeId/service/path, whatever the non-empty nodeId,
\* builds the subject nodeId/service/path--verb and hands it to the transport
\* instead of being refused
C29_AnyNodeIdAddressable ==
    \A i \in 1..Len(msgs) :
        (msgs[i].kind = "send" /\ msgs[i].verb \in ALLOWED_METHODS
            /\ WellAddressed(msgs[i].url)) =>
            /\ msgs[i].state # "rejected"
            /\ msgs[i].primitive = "request"
            /\ msgs[i].subject = msgs[i].url \o <<"-", "-">> \o msgs[i].verb

\* C30: in every reachable state the subject of every subscription made by
\* on() is in the route table, and no entry of the route table is ever
\* removed or replaced: the table only grows
C30_RouteTableGrows ==
    /\ [](\A k \in OnSubs : subs[k].subject \in routeSet)
    /\ [][routeSet \subseteq routeSet']_vars

\* two routes have been registered by on(), one after the other
C30_Witness ==
    /\ Cardinality(routeSet) = 2
    /\ Cardinality(OnSubs) = 2
    /\ \A k \in OnSubs : subs[k].subject \in routeSet

\* C31: a registration that fails because the transport's subscribe call
\* throws leaves no entry for its (verb, path) in the route table, so the
\* same route can be registered later: a call reported as a duplicate always
\* finds a subscription on its subject
C31_FailedOnLeavesNoRoute ==
    /\ lastOp.outcome = "subscribe_threw" => lastOp.subject \notin routeSet
    /\ lastOp.outcome = "duplicate" =>
          \E k \in OnSubs : subs[k].subject = lastOp.subject

\* C32: within one subscription the handler invocations never overlap and
\* follow the arrival order: a message is handed to the handler only while no
\* handler of the subscription is running, it is the oldest waiting message,
\* and every message handed over before it has completed and had its reply
\* published; arriving messages queue up behind the waiting ones.  So while
\* a handler has not completed, no later message of its subject is dispatched.
C32_SerialPerSubscription ==
    [][\A k \in 1..Len(subs) :
          /\ \A i \in 1..Len(msgs) :
                (k \in msgs'[i].invoked /\ k \notin msgs[i].invoked) =>
                    /\ subs[k].cur = 0
                    /\ subs[k].queue # <<>>
                    /\ i = Head(subs[k].queue)
                    /\ subs'[k].cur = i
                    /\ \A j \in 1..Len(msgs) :
                          k \in msgs[j].invoked =>
                              /\ j < i
                              /\ msgs[j].outcomes # {}
                              /\ msgs[j].reply => msgs[j].replies # <<>>
          /\ \/ subs'[k].queue = subs[k].queue
             \/ subs[k].queue # <<>> /\ subs'[k].queue = Tail(subs[k].queue)
             \/ subs'[k].queue = Append(subs[k].queue, Len(msgs'))
          /\ subs[k].cur # 0 => ~ENABLED Dispatch(k)]_vars

\* a message waits in the queue of a subscription whose handler is running
\* for an earlier message
C32_Witness ==
    \E k \in 1..Len(subs) :
        /\ subs[k].cur # 0
        /\ subs[k].queue # <<>>
        /\ subs[k].cur < Head(subs[k].queue)
        /\ msgs[subs[k].cur].outcomes = {}

\* message i is delivered by exact match only: every subscription made by
\* on() that receives its subject is subscribed to that very subject
ExactlyMatched(i) ==
    \A k \in OnSubs :
        SubjectMatches(subs[k].subject, msgs[i].subject)
            => subs[k].subject = msgs[i].subject

\* C33: under exact-match subject delivery every message delivered to a
\* subscription made by on() passes the route check: the unmatched-route
\* branch of the dispatcher is never taken for it
C33_RouteCheckPasses ==
    \A i \in 1..Len(msgs) :
        ExactlyMatched(i) =>
            /\ ~Unmatched(i)
            /\ \A r \in 1..Len(msgs[i].replies) :
                  msgs[i].replies[r].headers = NoHeaders

\* a message delivered to a subscription made by on() has passed the route
\* check and reached the handler
C33_Witness ==
    \E i \in 1..Len(msgs) : \E k \in OnSubs :
        /\ k \in msgs[i].invoked
        /\ subs[k].subject = msgs[i].subject
        /\ msgs[i].subject \in routeSet
        /\ msgs[i].outcomes # {}

\* subject belongs to this node: it is the node's nodeId/service followed by
\* a path
OwnSubject(subject) == StartsWith(subject, Prefix \o <<"/">>)

\* C34: on() never subscribes to a subject owned by another (nodeId, service)
\* pair, one whose address merely begins with the text of this node's
\* address included: every such registration is rejected as foreign
C34_NoForeignSubscription ==
    /\ \A k \in OnSubs : OwnSubject(subs[k].subject)
    /\ \A key \in routeSet : OwnSubject(key)
    /\ (lastOp.outcome # "none" /\ ~OwnSubject(lastOp.subject)) =>
          lastOp.outcome # "subscribed"

\* C35: for an inbound request delivered to one subscription the node
\* publishes at most one reply to the request's reply address, whichever way
\* the dispatch goes: handler result, handler error or unmatched route
C35_AtMostOneReply ==
    \A i \in 1..Len(msgs) :
        msgs[i].responders <= 1 =>
            /\ Len(msgs[i].replies) <= 1
            /\ (Unmatched(i) /\ ExpectsReply(msgs[i])) => Len(msgs[i].replies) = 1
            /\ (HandlerThrew(i) /\ ExpectsReply(msgs[i])) => Len(msgs[i].replies) = 1

\* an unmatched route and a failed handler have each been answered once, and
\* a handler result has been
C35_Witness ==
    /\ \E i \in 1..Len(msgs) : Unmatched(i) /\ Len(msgs[i].replies) = 1
    /\ \E i \in 1..Len(msgs) :
          \/ HandlerThrew(i) /\ Len(msgs[i].replies) = 1
          \/ R_value \in msgs[i].outcomes /\ Len(msgs[i].replies) = 1

\* C36: a handler failure does not end the subscription: after a handler has
\* thrown or rejected for a message, whatever it threw, the loop of its
\* subscription is still running and dispatches the later messages
C36_SubscriptionSurvivesThrow ==
    \A i \in 1..Len(msgs) : \A k \in msgs[i].invoked :
        HandlerThrew(i) =>
            /\ subs[k].alive
            /\ (subs[k].cur = 0 /\ subs[k].queue # <<>> /\ ~halted) => ENABLED Dispatch(k)

\* C37: NodeRouter.apply(peer) is all-or-nothing: when registering one of the
\* router's routes on the peer fails, none of the router's routes is left in
\* the peer's route table or subscribed on the transport
C37_ApplyAllOrNothing ==
    (router.applied /\ (router.last = "throws" \/ halted)) =>
        \A r \in 1..Len(router.routes) :
            /\ RouteSubject(router.routes[r].method, router.routes[r].url) \notin routeSet
            /\ \A k \in 1..Len(subs) : subs[k].handler # router.routes[r].handler

\* the URLs called that are not of the form n<id>/<service>/path: one with no
\* nodeId, two whose nodeId is not the letter n and digits
NotAbsoluteUrls == {U_rel, U_x1, U_alpha}

\* C38: a send() with an allowed verb and a URL that is not absolute
\* (n<id>/<service>/path) is rejected to the caller: neither publish nor
\* request is called on the transport, so the message reaches no subscriber,
\* and no error sink is invoked
C38_RelativeUrlRejected ==
    \A i \in 1..Len(msgs) :
        (msgs[i].kind = "send" /\ msgs[i].verb \in ALLOWED_METHODS
            /\ msgs[i].url \in NotAbsoluteUrls) =>
            /\ msgs[i].state = "rejected"
            /\ msgs[i].primitive = "none"
            /\ msgs[i].timeout = Undefined
            /\ msgs[i].responders = 0
            /\ msgs[i].invoked = {}
            /\ msgs[i].replies = <<>>
            /\ msgs[i].errors = <<>>
            /\ msgs[i].result = Undefined
            /\ \A k \in 1..Len(subs) :
                  /\ subs[k].cur # i
                  /\ \A q \in 1..Len(subs[k].queue) : subs[k].queue[q] # i

\* a call to the relative URL gc/u has been rejected while a route was
\* registered
C38_Witness ==
    \E i \in 1..Len(msgs) :
        /\ msgs[i].url = U_rel
        /\ msgs[i].state = "rejected"
        /\ subs # <<>>

====
